---- MODULE Spec2Model ----
(***************************************************************************)
(* The latency sampling and classification pipeline of the cold-start      *)
(* measurement scripts: analyze_periodic.py (log parser and summary),      *)
(* periodic_experiment.py (live sequential run and summary) and            *)
(* experiment_suite.py (periodic_run, percentile, summarize_latencies).    *)
(*                                                                         *)
(* Conventions.  Elapsed times are whole milliseconds.  Python floats are  *)
(* modelled by exact rational arithmetic: a percentile is held in          *)
(* hundredths of a millisecond (the fractional rank has denominator 100),  *)
(* every other printed statistic as a fraction num/den.  `entry` names the *)
(* function of the repository that a behaviour executes.                   *)
(***************************************************************************)
EXTENDS Integers, Sequences, FiniteSets, Bags, TLC

VARIABLES
    entry,          \* the function being run
    pc,             \* position in that function
    log,            \* analyze_periodic: the lines of the file read so far
    current_req,    \* parse_periodic_log: the pending marker, or None
    req_nums,       \* parse_periodic_log: indexes of the emitted samples
    latencies,      \* the elapsed times (ms) collected or passed in
    num_requests,   \* live run: NUM_REQUESTS / num_requests
    i,              \* live run: the loop variable
    records,        \* run_experiment: the recorded samples
    trace,          \* live run: the events so far, in order (history)
    cold,           \* summarize: the cold partition
    warm,           \* summarize: the warm partition
    out,            \* the lines printed by summarize, in order
    files,          \* the files written (CSV, chart)
    raised,         \* the exception that ended the function, or ""
    exit_code,      \* the exit status of the process, or None while running
    p,              \* percentile: the argument p
    result          \* percentile / summarize_latencies: the value returned

vars == <<entry, pc, log, current_req, req_nums, latencies, num_requests, i,
          records, trace, cold, warm, out, files, raised, exit_code, p, result>>

parseVars == <<log, current_req, req_nums>>
liveVars  == <<num_requests, i, records, trace>>
sumVars   == <<cold, warm, out>>
pureVars  == <<p, result>>

\* ---------------------------------------------------------------- bounds

MaxLines == 4
MaxRequests == 3
MaxLen == 4

\* ------------------------------------------------------ program constants

COLD_THRESHOLD_MS == 500
None == -1
NaN == -2

\* The elapsed times (ms) of the model: below, at and above the threshold.
Durations == {100, 500, 501, 600}

\* ---------------------------------------------------------------- helpers

Min(a, b) == IF a < b THEN a ELSE b

RECURSIVE Sum(_)
Sum(s) == IF s = <<>> THEN 0 ELSE Head(s) + Sum(Tail(s))

RECURSIVE Insert(_, _)
Insert(x, s) ==
    IF s = <<>> THEN <<x>>
    ELSE IF x < Head(s) THEN <<x>> \o s
    ELSE <<Head(s)>> \o Insert(x, Tail(s))

\* sorted(data): ascending, stable.
RECURSIVE sorted(_)
sorted(s) == IF s = <<>> THEN <<>> ELSE Insert(s[Len(s)], sorted(SubSeq(s, 1, Len(s) - 1)))

SeqsUpTo(S, n) == UNION {[1..k -> S] : k \in 0..n}


\* ------------------------------------------- analyze_periodic.py: parsing

\* A line of the log, by what the two regular expressions find in it:
\* req is the group of REQ_NUM_REGEX.search(line) (None: no match), has_time
\* says whether LATENCY_REGEX.search(line) matches, minutes and seconds_ms
\* are its two groups (minutes None: the optional group did not take part).
\* LATENCY_REGEX matches every line that holds a digit, a marker line
\* included: "Request 7" gives seconds 7.  The time-bearing lines stand
\* for "0.100", "real 0m0.500s" and "1m02.5", the noise line for a line
\* without a digit.
Indexes == {1, 2, 7}

MarkerLines ==
    {[req |-> n, has_time |-> TRUE, minutes |-> None, seconds_ms |-> 1000 * n] : n \in Indexes}

TimeLines ==
    { [req |-> None, has_time |-> TRUE, minutes |-> None, seconds_ms |-> 100],
      [req |-> None, has_time |-> TRUE, minutes |-> 0, seconds_ms |-> 500],
      [req |-> None, has_time |-> TRUE, minutes |-> 1, seconds_ms |-> 2500] }

NoiseLines ==
    {[req |-> None, has_time |-> FALSE, minutes |-> None, seconds_ms |-> None]}

Lines == MarkerLines \cup TimeLines \cup NoiseLines

REQ_NUM_REGEX_search(line) == line.req

LATENCY_REGEX_search(line) == line.has_time

\* ms = total_seconds * 1000, minutes converted to seconds first.
LineMs(line) ==
    IF line.minutes # None
    THEN line.seconds_ms + line.minutes * 60000
    ELSE line.seconds_ms

\* (mutant) the pending marker is not cleared after a sample.
ParseStep_keeps_pending(line) ==
    IF REQ_NUM_REGEX_search(line) # None
    THEN /\ current_req' = REQ_NUM_REGEX_search(line)
         /\ UNCHANGED <<req_nums, latencies>>
    ELSE IF LATENCY_REGEX_search(line) /\ current_req # None
    THEN /\ req_nums' = Append(req_nums, current_req)
         /\ latencies' = Append(latencies, LineMs(line))
         /\ UNCHANGED current_req
    ELSE UNCHANGED <<current_req, req_nums, latencies>>

\* One iteration of `for line in f` of parse_periodic_log.
ParseStep(line) ==
    IF REQ_NUM_REGEX_search(line) # None
    THEN /\ current_req' = REQ_NUM_REGEX_search(line)
         /\ UNCHANGED <<req_nums, latencies>>
    ELSE IF LATENCY_REGEX_search(line) /\ current_req # None
    THEN /\ req_nums' = Append(req_nums, current_req)
         /\ latencies' = Append(latencies, LineMs(line))
         /\ current_req' = None
    ELSE UNCHANGED <<current_req, req_nums, latencies>>

ReadLine ==
    /\ entry = "analyze_periodic.main"
    /\ pc = "parse"
    /\ Len(log) < MaxLines
    /\ \E line \in Lines :
          /\ log' = Append(log, line)
          /\ ParseStep(line)
    /\ UNCHANGED <<entry, pc, liveVars, sumVars, files, raised, exit_code, pureVars>>

\* End of file: parse_periodic_log returns req_nums, latencies to main.
EndOfFile ==
    /\ entry = "analyze_periodic.main"
    /\ pc = "parse"
    /\ pc' = "parsed"
    /\ UNCHANGED <<entry, parseVars, latencies, liveVars, sumVars, files, raised,
                   exit_code, pureVars>>

\* ----------------------------------------------------------- statistics

\* A printed line: its label and the value formatted into it, num/den.
Printed(label, num, den) == [label |-> label, num |-> num, den |-> den]

\* statistics.mean of a non-empty list, as the fraction sum/len.
mean(data) == [num |-> Sum(data), den |-> Len(data)]

\* statistics.median of a non-empty list: the middle element of the sorted
\* data, the average of the two middle elements for an even length.
median(data) ==
    LET s == sorted(data)
        n == Len(s)
    IN  IF n % 2 = 1
        THEN [num |-> s[(n \div 2) + 1], den |-> 1]
        ELSE [num |-> s[n \div 2] + s[(n \div 2) + 1], den |-> 2]

\* statistics.quantiles(data, n=100)[k - 1] for at least two data points, in
\* hundredths: the default method is 'exclusive', rank k * (len + 1) / 100
\* clamped to 1 .. len - 1.
quantiles(data, k) ==
    LET s  == sorted(data)
        ld == Len(s)
        m  == ld + 1
        j0 == (k * m) \div 100
        j  == IF j0 < 1 THEN 1 ELSE IF j0 > ld - 1 THEN ld - 1 ELSE j0
        delta == k * m - j * 100
    IN  s[j] * (100 - delta) + s[j + 1] * delta

\* Whether statistics.quantiles raises StatisticsError on data of this
\* length.  One data point raises up to Python 3.12 and is accepted from
\* 3.13 on (the cut points are then all that point); the scripts pin no
\* version, so both are outcomes (py313 says which).
quantiles_raises(data, py313) ==
    Len(data) = 0 \/ (Len(data) = 1 /\ ~py313)

\* quantiles(...)[k - 1] where it does not raise.
quantile_value(data, k) ==
    IF Len(data) = 1 THEN 100 * data[1] ELSE quantiles(data, k)

\* (mutant) a value equal to the threshold counts as cold.
cold_of_inclusive(lat) == SelectSeq(lat, LAMBDA x : x >= COLD_THRESHOLD_MS)

\* cold = [x for x in latencies if x > COLD_THRESHOLD_MS]
cold_of(lat) == SelectSeq(lat, LAMBDA x : x > COLD_THRESHOLD_MS)

\* warm = [x for x in latencies if x <= COLD_THRESHOLD_MS]
warm_of(lat) == SelectSeq(lat, LAMBDA x : x <= COLD_THRESHOLD_MS)

\* The lines summarize prints from the cold count on.
cold_warm_lines(lat) ==
    <<Printed("Cold starts", Len(cold_of(lat)), 1)>>
    \o (IF warm_of(lat) # <<>>
        THEN <<Printed("Warm avg", mean(warm_of(lat)).num, mean(warm_of(lat)).den)>>
        ELSE <<>>)
    \o (IF cold_of(lat) # <<>>
        THEN <<Printed("Cold avg", mean(cold_of(lat)).num, mean(cold_of(lat)).den)>>
        ELSE <<>>)

\* summarize(latencies) of analyze_periodic.py and the body of summarize of
\* periodic_experiment.py after its guard: what is printed, the partitions,
\* and the exception that ends it ("": it returns).  The print statements
\* run in order, so an exception keeps the lines printed before it.
summary(lat, py313) ==
    LET head == <<Printed("Summary", 0, 1), Printed("Total", Len(lat), 1)>>
    IN  IF lat = <<>>
        THEN [out |-> head, cold |-> <<>>, warm |-> <<>>, raised |-> "StatisticsError"]
        ELSE LET upto_median ==
                     head \o <<Printed("Mean", mean(lat).num, mean(lat).den),
                                Printed("Median", median(lat).num, median(lat).den)>>
             IN  IF quantiles_raises(lat, py313)
                 THEN [out |-> upto_median, cold |-> <<>>, warm |-> <<>>,
                       raised |-> "StatisticsError"]
                 ELSE [out |-> upto_median
                               \o <<Printed("p90", quantile_value(lat, 90), 100),
                                     Printed("p99", quantile_value(lat, 99), 100)>>
                               \o cold_warm_lines(lat),
                       cold |-> cold_of(lat), warm |-> warm_of(lat), raised |-> ""]

\* ------------------------------------------- analyze_periodic.py: main

\* main: `if not latencies`: the diagnostic and sys.exit(1).
MainRejectEmpty ==
    /\ entry = "analyze_periodic.main"
    /\ pc = "parsed"
    /\ latencies = <<>>
    /\ out' = <<Printed("ERROR: No latency entries parsed", 0, 1)>>
    /\ exit_code' = 1
    /\ pc' = "exited"
    /\ UNCHANGED <<entry, parseVars, latencies, liveVars, cold, warm, files, raised,
                   pureVars>>

\* main: summarize(latencies); an exception it raises ends the process
\* with a traceback and exit status 1.
MainSummarize ==
    /\ entry = "analyze_periodic.main"
    /\ pc = "parsed"
    /\ latencies # <<>>
    /\ \E py313 \in BOOLEAN :
          LET r == summary(latencies, py313)
          IN  /\ out' = r.out
              /\ cold' = r.cold
              /\ warm' = r.warm
              /\ raised' = r.raised
              /\ IF r.raised = ""
                 THEN pc' = "summarized" /\ UNCHANGED exit_code
                 ELSE pc' = "exited" /\ exit_code' = 1
    /\ UNCHANGED <<entry, parseVars, latencies, liveVars, files, pureVars>>

\* main: plot(req_nums, latencies) writes the chart; main returns, exit 0.
MainPlot ==
    /\ entry = "analyze_periodic.main"
    /\ pc = "summarized"
    /\ files' = files \cup {"periodic_latency.png"}
    /\ exit_code' = 0
    /\ pc' = "exited"
    /\ UNCHANGED <<entry, parseVars, latencies, liveVars, sumVars, raised, pureVars>>

\* ------------------------- the live sequential run: run_experiment, periodic_run

LiveEntries == {"periodic_experiment.main", "experiment_suite.periodic_run"}

\* What requests.get can do: return a response with a status code, or raise
\* (connection refused, timeout).  The elapsed time is the environment's.
StatusCodes == {200, 503}
LiveElapsed == {100, 600}

\* ok = resp.status_code
status_code(code) == [is_int |-> TRUE, value |-> code]

\* ok = f"ERROR: {e}"
status_error == [is_int |-> FALSE, value |-> 0]

\* (mutant) the row carries a 0-based index.
new_record_zero_based(idx, latency_ms, ok) ==
    [request_index |-> idx - 1, latency_ms |-> latency_ms, status |-> ok]

\* The row appended to records (the wall-clock timestamp is left out).
new_record(idx, latency_ms, ok) ==
    [request_index |-> idx, latency_ms |-> latency_ms, status |-> ok]

\* (mutant) the sleep follows the last request too.
sleep_due_every(idx, n) == idx <= n

\* `if i < NUM_REQUESTS:` / `if i < num_requests:` before time.sleep.
sleep_due(idx, n) == idx < n

Event(ev, idx, latency_ms, ok) ==
    [ev |-> ev, idx |-> idx, latency_ms |-> latency_ms, ok |-> ok]

\* The next iteration of `for i in range(1, n + 1)`: the start time is taken
\* and requests.get is called.
IssueRequest ==
    /\ entry \in LiveEntries
    /\ pc = "loop"
    /\ i < num_requests
    /\ i' = i + 1
    /\ trace' = Append(trace, Event("issue", i + 1, 0, status_error))
    /\ pc' = "awaiting"
    /\ UNCHANGED <<entry, parseVars, latencies, num_requests, records, sumVars, files,
                   raised, exit_code, pureVars>>

\* The rest of the iteration once the call is over: the end time is taken,
\* the sample is appended (run_experiment: a record; periodic_run: the
\* elapsed time alone), and the sleep is due or not.
Record(latency_ms, ok) ==
    /\ IF entry = "periodic_experiment.main"
       THEN /\ records' = Append(records, new_record(i, latency_ms, ok))
            /\ UNCHANGED latencies
       ELSE /\ latencies' = Append(latencies, latency_ms)
            /\ UNCHANGED records
    /\ trace' = Append(trace, Event("done", i, latency_ms, ok))
    /\ pc' = IF sleep_due(i, num_requests) THEN "sleep" ELSE "loop"

\* requests.get returns a response.
RequestReturns ==
    /\ entry \in LiveEntries
    /\ pc = "awaiting"
    /\ \E code \in StatusCodes, latency_ms \in LiveElapsed :
          Record(latency_ms, status_code(code))
    /\ UNCHANGED <<entry, parseVars, num_requests, i, sumVars, files, raised,
                   exit_code, pureVars>>

\* (mutant) the handler skips the rest of the iteration: no sample.
RequestFails_unrecorded ==
    /\ entry \in LiveEntries
    /\ pc = "awaiting"
    /\ \E latency_ms \in LiveElapsed :
          trace' = Append(trace, Event("done", i, latency_ms, status_error))
    /\ pc' = IF sleep_due(i, num_requests) THEN "sleep" ELSE "loop"
    /\ UNCHANGED <<entry, parseVars, latencies, num_requests, i, records, sumVars,
                   files, raised, exit_code, pureVars>>

\* requests.get raises: `except Exception` swallows it.
RequestFails ==
    /\ entry \in LiveEntries
    /\ pc = "awaiting"
    /\ \E latency_ms \in LiveElapsed : Record(latency_ms, status_error)
    /\ UNCHANGED <<entry, parseVars, num_requests, i, sumVars, files, raised,
                   exit_code, pureVars>>

\* time.sleep(INTERVAL_SECONDS) is entered ...
SleepStart ==
    /\ entry \in LiveEntries
    /\ pc = "sleep"
    /\ trace' = Append(trace, Event("sleep_start", i, 0, status_error))
    /\ pc' = "sleeping"
    /\ UNCHANGED <<entry, parseVars, latencies, num_requests, i, records, sumVars,
                   files, raised, exit_code, pureVars>>

\* ... and returns.
SleepEnd ==
    /\ entry \in LiveEntries
    /\ pc = "sleeping"
    /\ trace' = Append(trace, Event("sleep_end", i, 0, status_error))
    /\ pc' = "loop"
    /\ UNCHANGED <<entry, parseVars, latencies, num_requests, i, records, sumVars,
                   files, raised, exit_code, pureVars>>

\* The range is exhausted: run_experiment returns records to main,
\* periodic_run returns latencies to its caller.
LoopEnd ==
    /\ entry \in LiveEntries
    /\ pc = "loop"
    /\ i >= num_requests
    /\ pc' = IF entry = "periodic_experiment.main" THEN "ran" ELSE "returned"
    /\ UNCHANGED <<entry, parseVars, latencies, liveVars, sumVars, files, raised,
                   exit_code, pureVars>>

\* ---------------------------------------- periodic_experiment.py: main

\* main: save_csv(records, CSV_PATH).
SaveCsv ==
    /\ entry = "periodic_experiment.main"
    /\ pc = "ran"
    /\ files' = files \cup {"periodic_results.csv"}
    /\ pc' = "saved"
    /\ UNCHANGED <<entry, parseVars, latencies, liveVars, sumVars, raised, exit_code,
                   pureVars>>

\* latencies = [r["latency_ms"] for r in records
\*              if isinstance(r["status"], int) and r["status"] == 200]
successful(recs) ==
    LET ok == SelectSeq(recs, LAMBDA r : r.status.is_int /\ r.status.value = 200)
    IN  [k \in 1..Len(ok) |-> ok[k].latency_ms]

\* main: summarize(records).  With no successful request it prints one
\* line and returns; otherwise it prints the summary.
SummarizeRecords ==
    /\ entry = "periodic_experiment.main"
    /\ pc = "saved"
    /\ latencies' = successful(records)
    /\ IF successful(records) = <<>>
       THEN /\ out' = <<Printed("No successful requests to summarize.", 0, 1)>>
            /\ pc' = "summarized"
            /\ UNCHANGED <<cold, warm, raised, exit_code>>
       ELSE \E py313 \in BOOLEAN :
              LET r == summary(successful(records), py313)
              IN  /\ out' = r.out
                  /\ cold' = r.cold
                  /\ warm' = r.warm
                  /\ raised' = r.raised
                  /\ IF r.raised = ""
                     THEN pc' = "summarized" /\ UNCHANGED exit_code
                     ELSE pc' = "exited" /\ exit_code' = 1
    /\ UNCHANGED <<entry, parseVars, liveVars, files, pureVars>>

\* main: plot(records, PLOT_PATH) writes the chart; main returns, exit 0.
PlotRecords ==
    /\ entry = "periodic_experiment.main"
    /\ pc = "summarized"
    /\ files' = files \cup {"periodic_latency.png"}
    /\ exit_code' = 0
    /\ pc' = "exited"
    /\ UNCHANGED <<entry, parseVars, latencies, liveVars, sumVars, raised, pureVars>>

\* ------------------------------ experiment_suite.py: percentile, summarize_latencies

\* (mutant) nearest rank above: the element at c, no interpolation.
percentile_upper(sorted_data, pp) ==
    IF sorted_data = <<>> THEN NaN
    ELSE LET k100 == (Len(sorted_data) - 1) * pp
             f == k100 \div 100
             c == Min(f + 1, Len(sorted_data) - 1)
         IN  100 * sorted_data[c + 1]

\* percentile(sorted_data, p) in hundredths (NaN for no data):
\* k = (len - 1) * (p / 100), f = int(k), c = min(f + 1, len - 1), and
\* sorted_data[f] + (sorted_data[c] - sorted_data[f]) * (k - f).
\* Python indexes from 0, a TLA+ sequence from 1.
percentile(sorted_data, pp) ==
    IF sorted_data = <<>> THEN NaN
    ELSE LET k100 == (Len(sorted_data) - 1) * pp
             f == k100 \div 100
             c == Min(f + 1, Len(sorted_data) - 1)
         IN  IF f = c
             THEN 100 * sorted_data[f + 1]
             ELSE 100 * sorted_data[f + 1]
                  + (sorted_data[c + 1] - sorted_data[f + 1]) * (k100 - 100 * f)

\* summarize_latencies(lat_ms): the dictionary, or the exception of
\* sum(lat_ms) / len(lat_ms) on an empty list.
summarize_latencies(lat_ms) ==
    LET s == sorted(lat_ms)
    IN  IF Len(lat_ms) = 0
        THEN [raised |-> "ZeroDivisionError", value |-> None]
        ELSE [raised |-> "",
              value |-> [p50 |-> percentile(s, 50), p90 |-> percentile(s, 90),
                         p95 |-> percentile(s, 95), p99 |-> percentile(s, 99),
                         mean |-> mean(lat_ms)]]

\* The values of p the calls are made with.
Percents == {0, 50, 90, 95, 99, 100}

IsSorted(s) == \A k \in 1..(Len(s) - 1) : s[k] <= s[k + 1]

\* A call percentile(sorted_data, p); latencies holds sorted_data.
CallPercentile ==
    /\ entry = "experiment_suite.percentile"
    /\ pc = "call"
    /\ result' = percentile(latencies, p)
    /\ pc' = "returned"
    /\ UNCHANGED <<entry, parseVars, latencies, liveVars, sumVars, files, raised,
                   exit_code, p>>

\* A call summarize_latencies(lat_ms); latencies holds lat_ms.
CallSummarizeLatencies ==
    /\ entry = "experiment_suite.summarize_latencies"
    /\ pc = "call"
    /\ result' = summarize_latencies(latencies).value
    /\ raised' = summarize_latencies(latencies).raised
    /\ pc' = "returned"
    /\ UNCHANGED <<entry, parseVars, latencies, liveVars, sumVars, files, exit_code, p>>

\* A call summarize(latencies) of analyze_periodic.py.
CallSummarize ==
    /\ entry = "analyze_periodic.summarize"
    /\ pc = "call"
    /\ \E py313 \in BOOLEAN :
          LET r == summary(latencies, py313)
          IN  /\ out' = r.out
              /\ cold' = r.cold
              /\ warm' = r.warm
              /\ raised' = r.raised
    /\ pc' = "returned"
    /\ UNCHANGED <<entry, parseVars, latencies, liveVars, files, exit_code, pureVars>>

\* ------------------------------------------------------- the specification

InitCommon ==
    /\ log = <<>>
    /\ current_req = None
    /\ req_nums = <<>>
    /\ i = 0
    /\ records = <<>>
    /\ trace = <<>>
    /\ cold = <<>>
    /\ warm = <<>>
    /\ out = <<>>
    /\ files = {}
    /\ raised = ""
    /\ exit_code = None
    /\ result = None

\* analyze_periodic.py is started on a log file.
InitAnalyze ==
    /\ entry = "analyze_periodic.main"
    /\ pc = "parse"
    /\ latencies = <<>>
    /\ num_requests = 0
    /\ p = 0

\* periodic_experiment.py is started, or periodic_run is called.
InitLive ==
    /\ entry \in LiveEntries
    /\ pc = "loop"
    /\ latencies = <<>>
    /\ num_requests \in 1..MaxRequests
    /\ p = 0

\* A function is called on a list of elapsed times.
InitCall ==
    /\ pc = "call"
    /\ num_requests = 0
    /\ \/ /\ entry = "experiment_suite.percentile"
          /\ latencies \in {s \in SeqsUpTo(Durations, MaxLen) : IsSorted(s)}
          /\ p \in Percents
       \/ /\ entry \in {"experiment_suite.summarize_latencies", "analyze_periodic.summarize"}
          /\ latencies \in SeqsUpTo(Durations, MaxLen)
          /\ p = 0

Init == InitCommon /\ (InitAnalyze \/ InitLive \/ InitCall)

Next ==
    \/ ReadLine
    \/ EndOfFile
    \/ MainRejectEmpty
    \/ MainSummarize
    \/ MainPlot
    \/ IssueRequest
    \/ RequestReturns
    \/ RequestFails
    \/ SleepStart
    \/ SleepEnd
    \/ LoopEnd
    \/ SaveCsv
    \/ SummarizeRecords
    \/ PlotRecords
    \/ CallPercentile
    \/ CallSummarizeLatencies
    \/ CallSummarize

Spec == Init /\ [][Next]_vars

\* ================================================================ claims

Labels(printed) == {printed[k].label : k \in 1..Len(printed)}

Range(s) == {s[k] : k \in 1..Len(s)}

BagOfSeq(s) == [x \in Range(s) |-> Cardinality({k \in 1..Len(s) : s[k] = x})]

\* The positions of s, in order, where s holds the k-th member of idx.
RankIn(idx, j) == Cardinality({k \in idx : k <= j})

\* sub is s restricted to the positions idx, in the order of s.
IsRestriction(sub, s, idx) ==
    /\ Len(sub) = Cardinality(idx)
    /\ \A j \in idx : sub[RankIn(idx, j)] = s[j]

\* ---- C1

IsMarker(ln) == ln.req # None

\* A time-bearing line: the latency pattern matches and the line is no marker.
IsTimeLine(ln) == ln.req = None /\ ln.has_time

MarkersBefore(j) == {m \in 1..(j - 1) : IsMarker(log[m])}

MostRecentMarker(j) == CHOOSE m \in MarkersBefore(j) : \A n \in MarkersBefore(j) : n <= m

\* Line j is a time-bearing line read while a marker is pending: a marker
\* precedes it and no time-bearing line lies between the most recent marker
\* and j.
ReadWhilePending(j) ==
    /\ IsTimeLine(log[j])
    /\ MarkersBefore(j) # {}
    /\ \A k \in (MostRecentMarker(j) + 1)..(j - 1) : ~IsTimeLine(log[k])

EmitPositions == {j \in 1..Len(log) : ReadWhilePending(j)}

\* C1: in parse_periodic_log, after any sequence of lines, the samples are
\* exactly those of the time-bearing lines read while a marker was pending,
\* in order; each carries the index of the most recent marker and that
\* line's time; no marker yields two samples; and a marker is pending
\* exactly when the last marker has had no time-bearing line after it.
C1_SampleOnlyWhenMarkerPending ==
    entry = "analyze_periodic.main" =>
        /\ Len(req_nums) = Cardinality(EmitPositions)
        /\ Len(latencies) = Cardinality(EmitPositions)
        /\ \A j \in EmitPositions :
              /\ req_nums[RankIn(EmitPositions, j)] = log[MostRecentMarker(j)].req
              /\ latencies[RankIn(EmitPositions, j)] = LineMs(log[j])
        /\ \A j1, j2 \in EmitPositions :
              MostRecentMarker(j1) = MostRecentMarker(j2) => j1 = j2
        /\ Len(req_nums) <= Cardinality({m \in 1..Len(log) : IsMarker(log[m])})
        /\ LET n == Len(log) + 1
           IN  IF MarkersBefore(n) # {}
                  /\ \A k \in (MostRecentMarker(n) + 1)..Len(log) : ~IsTimeLine(log[k])
               THEN current_req = log[MostRecentMarker(n)].req
               ELSE current_req = None

\* A log of two markers and then two time-bearing lines: the first marker
\* and the second time line yield nothing, the second marker one sample.
C1_Witness ==
    /\ entry = "analyze_periodic.main"
    /\ Len(log) = 4
    /\ IsMarker(log[1]) /\ IsMarker(log[2]) /\ log[1].req # log[2].req
    /\ IsTimeLine(log[3]) /\ IsTimeLine(log[4])
    /\ req_nums = <<log[2].req>>
    /\ latencies = <<LineMs(log[3])>>
    /\ current_req = None

\* ---- C2

Classified == "Cold starts" \in Labels(out)

ColdPositions == {j \in 1..Len(latencies) : latencies[j] > COLD_THRESHOLD_MS}

WarmPositions == {j \in 1..Len(latencies) : latencies[j] <= COLD_THRESHOLD_MS}

\* C2: whenever summarize has classified the elapsed times, cold holds
\* exactly the elements above the threshold and warm exactly those at or
\* below it (a value equal to the threshold is warm), each in the input's
\* order, every element is in exactly one of the two, and together they are
\* the input's multiset; [100, 600, 500, 501] gives [600, 501] and [100, 500].
C2_ColdWarmPartition ==
    Classified =>
        /\ IsRestriction(cold, latencies, ColdPositions)
        /\ IsRestriction(warm, latencies, WarmPositions)
        /\ \A x \in Range(cold) : x > COLD_THRESHOLD_MS
        /\ \A x \in Range(warm) : x <= COLD_THRESHOLD_MS
        /\ Range(cold) \cap Range(warm) = {}
        /\ Len(cold) + Len(warm) = Len(latencies)
        /\ BagOfSeq(cold) (+) BagOfSeq(warm) = BagOfSeq(latencies)
        /\ (latencies = <<100, 600, 500, 501>>
               => cold = <<600, 501>> /\ warm = <<100, 500>>)

C2_Witness ==
    /\ Classified
    /\ latencies = <<100, 600, 500, 501>>
    /\ cold = <<600, 501>>
    /\ warm = <<100, 500>>

\* ---- C3

InLoop == pc \in {"loop", "awaiting", "sleep", "sleeping"}

Issued == SelectSeq(trace, LAMBDA e : e.ev = "issue")

Completed == SelectSeq(trace, LAMBDA e : e.ev = "done")

\* The samples recorded so far, as (elapsed time, outcome) pairs where the
\* outcome is kept (run_experiment) and elapsed times alone otherwise.
SampleCount ==
    IF entry = "periodic_experiment.main" THEN Len(records) ELSE Len(latencies)

SampleMatches(k, e) ==
    IF entry = "periodic_experiment.main"
    THEN records[k].latency_ms = e.latency_ms /\ records[k].status = e.ok
    ELSE latencies[k] = e.latency_ms

\* C3: in the live sequential run with request count N, whatever the
\* requests do, the k-th request issued is request k (none is issued
\* twice), never more than N are issued, every request that is over has
\* exactly one sample holding its elapsed time and outcome, failed ones
\* included, no exception ends the loop, and when the loop is over exactly
\* N requests were issued and N samples recorded.
C3_EveryRequestOnceAndRecorded ==
    (entry \in LiveEntries /\ pc \in {"loop", "awaiting", "sleep", "sleeping", "ran", "returned"}) =>
        /\ \A k \in 1..Len(Issued) : Issued[k].idx = k
        /\ Len(Issued) <= num_requests
        /\ Len(Completed) = (IF pc = "awaiting" THEN Len(Issued) - 1 ELSE Len(Issued))
        /\ SampleCount = Len(Completed)
        /\ \A k \in 1..Len(Completed) :
              Completed[k].idx = k /\ SampleMatches(k, Completed[k])
        /\ raised = ""
        /\ exit_code = None
        /\ (~InLoop => Len(Issued) = num_requests /\ SampleCount = num_requests)

\* A finished run of at least two requests, one failed and one answered.
C3_Witness ==
    /\ entry \in LiveEntries
    /\ pc \in {"ran", "returned"}
    /\ num_requests >= 2
    /\ SampleCount = num_requests
    /\ \E k \in 1..Len(Completed) : ~Completed[k].ok.is_int
    /\ \E k \in 1..Len(Completed) : Completed[k].ok.is_int

\* ---- C10

EventKinds == <<"issue", "done", "sleep_start", "sleep_end">>

\* C10: in the live sequential run the events come in rounds of issue,
\* completion (with the sample recorded), start of the sleep, end of the
\* sleep, request by request; a sleep follows request j only for j < N, so
\* a finished run has N - 1 sleeps, none after the last request, and the
\* sample of a request is on record while its sleep runs.
C10_RequestThenSleepInOrder ==
    entry \in LiveEntries =>
        /\ \A k \in 1..Len(trace) :
              /\ trace[k].idx = ((k - 1) \div 4) + 1
              /\ trace[k].ev = EventKinds[((k - 1) % 4) + 1]
              /\ (trace[k].ev \in {"sleep_start", "sleep_end"} => trace[k].idx < num_requests)
        /\ (pc \in {"sleep", "sleeping"} => SampleCount = i /\ trace[4 * i - 2].ev = "done")
        /\ (pc \in {"ran", "returned"} =>
              /\ Len(trace) = 4 * num_requests - 2
              /\ Len(SelectSeq(trace, LAMBDA e : e.ev = "sleep_start")) = num_requests - 1
              /\ Len(SelectSeq(trace, LAMBDA e : e.ev = "sleep_end")) = num_requests - 1
              /\ trace[Len(trace)].ev = "done")

\* A finished run of three requests or more with a failed request in it.
C10_Witness ==
    /\ entry \in LiveEntries
    /\ pc \in {"ran", "returned"}
    /\ num_requests >= 3
    /\ Len(SelectSeq(trace, LAMBDA e : e.ev = "sleep_end")) = num_requests - 1
    /\ \E k \in 1..Len(trace) : trace[k].ev = "done" /\ ~trace[k].ok.is_int

\* ---- C6

\* C6: for a non-empty sorted sequence, percentile(s, 100) is the greatest
\* element, percentile(s, 0) the least, and for an odd length
\* percentile(s, 50) is the middle element (values in hundredths).
C6_PercentileEndsAndMedian ==
    (entry = "experiment_suite.percentile" /\ pc = "returned" /\ latencies # <<>>) =>
        /\ (p = 100 => /\ result \in {100 * x : x \in Range(latencies)}
                       /\ \A x \in Range(latencies) : 100 * x <= result)
        /\ (p = 0 => /\ result \in {100 * x : x \in Range(latencies)}
                     /\ \A x \in Range(latencies) : 100 * x >= result)
        /\ ((p = 50 /\ Len(latencies) % 2 = 1)
              => /\ result = 100 * latencies[(Len(latencies) + 1) \div 2]
                 /\ result * median(latencies).den = 100 * median(latencies).num)

\* percentile(<<100, 500, 600>>, 50) has returned the middle element.
C6_Witness ==
    /\ entry = "experiment_suite.percentile"
    /\ pc = "returned"
    /\ latencies = <<100, 500, 600>>
    /\ p = 50
    /\ result = 50000

\* ---- C8

\* The indexes written in the marker lines of the log, in the log's order.
MarkerIndexes ==
    LET ms == SelectSeq(log, IsMarker)
    IN  [k \in 1..Len(ms) |-> ms[k].req]

\* sub can be had from s by leaving elements out.
RECURSIVE IsSubsequence(_, _)
IsSubsequence(sub, s) ==
    IF sub = <<>> THEN TRUE
    ELSE IF s = <<>> THEN FALSE
    ELSE IF Head(sub) = Head(s) THEN IsSubsequence(Tail(sub), Tail(s))
    ELSE IsSubsequence(sub, Tail(s))

LiveSamplesContiguous ==
    entry \in LiveEntries =>
        /\ \A k \in 1..Len(records) : records[k].request_index = k
        /\ \A k \in 1..Len(Completed) : Completed[k].idx = k
        /\ SampleCount = Len(Completed)

\* C8 as stated: the samples of every run, the log parser's included, have
\* the indexes 1, 2, 3, ... in order.
C8_AllRunsContiguousFromOne ==
    /\ LiveSamplesContiguous
    /\ entry = "analyze_periodic.main" => \A k \in 1..Len(req_nums) : req_nums[k] = k

\* C8 amended: the samples of the live request loop have the indexes
\* 1, 2, 3, ... in the order of acquisition; the samples of the log parser
\* are in the order of the log and carry the indexes of its marker lines,
\* which are whatever the log says.
C8_LiveContiguousParserInLogOrder ==
    /\ LiveSamplesContiguous
    /\ entry = "analyze_periodic.main" =>
          /\ IsSubsequence(req_nums, MarkerIndexes)
          /\ Len(latencies) = Len(req_nums)

\* The parser has emitted the samples 7 and 2, in that order.
C8_Witness ==
    /\ entry = "analyze_periodic.main"
    /\ pc = "parsed"
    /\ req_nums = <<7, 2>>
    /\ Len(latencies) = 2

\* ---- C4

\* C4: a driver whose elapsed times to aggregate are empty ends with a
\* non-zero exit status and a diagnostic, having printed no statistic and
\* written no chart.
C4_EmptyRunIsRejected ==
    (entry \in {"analyze_periodic.main", "periodic_experiment.main"}
        /\ pc \in {"summarized", "exited"} /\ latencies = <<>>) =>
        /\ pc = "exited"
        /\ exit_code = 1
        /\ out # <<>>
        /\ "Summary" \notin Labels(out)
        /\ "periodic_latency.png" \notin files

\* ---- C5

SummaryRan ==
    \/ entry \in {"analyze_periodic.main", "periodic_experiment.main"}
          /\ pc \in {"summarized", "exited"}
    \/ entry \in {"analyze_periodic.summarize", "experiment_suite.summarize_latencies"}
          /\ pc = "returned"

\* C5: a summary of a non-empty sequence of elapsed times, one element
\* included, raises nothing, and the printed summary holds the count, the
\* mean, the median, p90 and p99.
C5_NonEmptySummaryNeverRaises ==
    (SummaryRan /\ latencies # <<>>) =>
        /\ raised = ""
        /\ (entry # "experiment_suite.summarize_latencies"
              => {"Total", "Mean", "Median", "p90", "p99"} \subseteq Labels(out))

\* ---- C7

PrintedValue(label) ==
    LET k == CHOOSE k \in 1..Len(out) : out[k].label = label
    IN  out[k].num

\* C7: the p90 and p99 of a printed summary are the linear-interpolation
\* percentiles of rank (n - 1) * p / 100, those of percentile (values in
\* hundredths).
C7_SummaryPercentilesAreInterpolated ==
    (SummaryRan /\ {"p90", "p99"} \subseteq Labels(out)) =>
        /\ PrintedValue("p90") = percentile(sorted(latencies), 90)
        /\ PrintedValue("p99") = percentile(sorted(latencies), 99)

\* ---- C9

\* C9: a printed summary of a non-empty sequence reports the cold count,
\* the cold mean exactly when an element is above the threshold, and the
\* warm mean exactly when an element is at or below it.
C9_SubMeansIffPartitionNonEmpty ==
    ("Summary" \in Labels(out) /\ latencies # <<>>) =>
        /\ "Cold starts" \in Labels(out)
        /\ ("Cold avg" \in Labels(out) <=> ColdPositions # {})
        /\ ("Warm avg" \in Labels(out) <=> WarmPositions # {})

====
